---- MODULE Spec2Model ----
(***************************************************************************)
(* Model of app.py: a Streamlit application that loads a reservation       *)
(* export, keeps the table and the list of known establishments in the     *)
(* session, renders a 7-day RSV/PAX board coloured against the goals kept  *)
(* in Firestore, and lets the operator edit those goals.                   *)
(*                                                                         *)
(* Python str values that the program manipulates (labels, column names,   *)
(* file names, establishment keys) are sequences of one-character strings. *)
(***************************************************************************)
EXTENDS Integers, Sequences, FiniteSets, TLC

VARIABLES
    db,                     \* module global db (app_id goes with it): "unset", "None" or "client"
    df,                     \* st.session_state.df: NoKey, None or a table
    establecimientos_list,  \* st.session_state.establecimientos_list: NoKey or a sorted list
    uploaded_file_name,     \* st.session_state.uploaded_file_name
    store,                  \* Firestore collection 'metas': document id -> document
    today,                  \* datetime.now().date()
    view,                   \* what the last run of the script put on the page
    last,                   \* the interaction that triggered the last run
    saves,                  \* number of goal documents written so far
    fnIn,                   \* argument of the pure function under study
    fnOut                   \* its result

vars == <<db, df, establecimientos_list, uploaded_file_name, store, today,
          view, last, saves, fnIn, fnOut>>

-----------------------------------------------------------------------------
(* Python str operations                                                   *)

\* the characters in use, in code-point order
Alphabet ==
    <<"\t", " ", ",", "-", ".", "0", "1", "2", "3", "4", "5", "6", "7", "8", "9",
      "A", "B", "C", "D", "E", "F", "G", "H", "I", "J", "K", "L", "M", "N", "O",
      "P", "Q", "R", "S", "T", "U", "V", "W", "X", "Y", "Z", "_",
      "a", "b", "c", "d", "e", "f", "g", "h", "i", "j", "k", "l", "m", "n", "o",
      "p", "q", "r", "s", "t", "u", "v", "w", "x", "y", "z">>

OrdOf == [c \in {Alphabet[i] : i \in 1..Len(Alphabet)} |->
            CHOOSE i \in 1..Len(Alphabet) : Alphabet[i] = c]

Ord(c) == OrdOf[c]

UpperChars ==
    <<"A", "B", "C", "D", "E", "F", "G", "H", "I", "J", "K", "L", "M", "N", "O",
      "P", "Q", "R", "S", "T", "U", "V", "W", "X", "Y", "Z">>

LowerChars ==
    <<"a", "b", "c", "d", "e", "f", "g", "h", "i", "j", "k", "l", "m", "n", "o",
      "p", "q", "r", "s", "t", "u", "v", "w", "x", "y", "z">>

Whitespace == {" ", "\t"}

LowerOf == [c \in {Alphabet[i] : i \in 1..Len(Alphabet)} |->
              IF \E j \in 1..Len(UpperChars) : UpperChars[j] = c
              THEN LowerChars[CHOOSE j \in 1..Len(UpperChars) : UpperChars[j] = c]
              ELSE c]

\* str.lower()
StrLower(s) == [i \in 1..Len(s) |-> LowerOf[s[i]]]

RECURSIVE StrLStrip(_)
StrLStrip(s) ==
    IF s # <<>> /\ Head(s) \in Whitespace THEN StrLStrip(Tail(s)) ELSE s

RECURSIVE StrRStrip(_)
StrRStrip(s) ==
    IF s # <<>> /\ s[Len(s)] \in Whitespace THEN StrRStrip(SubSeq(s, 1, Len(s) - 1)) ELSE s

\* str.strip()
StrStrip(s) == StrRStrip(StrLStrip(s))

RECURSIVE StrFind(_, _, _)
StrFind(s, sep, from) ==
    IF from > Len(s) THEN 0
    ELSE IF s[from] = sep THEN from
    ELSE StrFind(s, sep, from + 1)

\* str.split(sep, 1)[0]
StrSplitFirst(s, sep) ==
    LET at == StrFind(s, sep, 1)
    IN  IF at = 0 THEN s ELSE SubSeq(s, 1, at - 1)

\* str.endswith(suffix)
StrEndsWith(s, suffix) ==
    /\ Len(s) >= Len(suffix)
    /\ SubSeq(s, Len(s) - Len(suffix) + 1, Len(s)) = suffix

\* s < t for Python str: lexicographic by code point
RECURSIVE StrLess(_, _)
StrLess(s, t) ==
    IF t = <<>> THEN FALSE
    ELSE IF s = <<>> THEN TRUE
    ELSE IF Head(s) = Head(t) THEN StrLess(Tail(s), Tail(t))
    ELSE Ord(Head(s)) < Ord(Head(t))

\* sorted(S) for a set of str
RECURSIVE Sorted(_)
Sorted(S) ==
    IF S = {} THEN <<>>
    ELSE LET least == CHOOSE x \in S : \A y \in S \ {x} : StrLess(x, y)
         IN  <<least>> \o Sorted(S \ {least})

Range(s) == {s[i] : i \in 1..Len(s)}

-----------------------------------------------------------------------------
(* datetime.date: a date is [year, month, day]                             *)

DaysInMonth(y, m) ==
    IF m = 2
    THEN IF (y % 4 = 0) /\ ((y % 100 # 0) \/ (y % 400 = 0)) THEN 29 ELSE 28
    ELSE IF m \in {4, 6, 9, 11} THEN 30 ELSE 31

DaysBeforeYear(y) ==
    (y - 1) * 365 + ((y - 1) \div 4) - ((y - 1) \div 100) + ((y - 1) \div 400)

RECURSIVE DaysBeforeMonth(_, _)
DaysBeforeMonth(y, m) ==
    IF m = 1 THEN 0 ELSE DaysBeforeMonth(y, m - 1) + DaysInMonth(y, m - 1)

\* date.toordinal()
ToOrdinal(d) == DaysBeforeYear(d.year) + DaysBeforeMonth(d.year, d.month) + d.day

\* date.weekday(): Monday is 0
Weekday(d) == (ToOrdinal(d) + 6) % 7

RECURSIVE YearOfOrdinal(_, _)
YearOfOrdinal(n, y) ==
    IF n > DaysBeforeYear(y + 1) THEN YearOfOrdinal(n, y + 1) ELSE y

RECURSIVE MonthOfOrdinal(_, _, _)
MonthOfOrdinal(n, y, m) ==
    IF n > DaysBeforeYear(y) + DaysBeforeMonth(y, m) + DaysInMonth(y, m)
    THEN MonthOfOrdinal(n, y, m + 1) ELSE m

\* date.fromordinal(n); the search for the year starts below it, a year
\* having at most 366 days
FromOrdinal(n) ==
    LET y == YearOfOrdinal(n, (n \div 366) + 1)
        m == MonthOfOrdinal(n, y, 1)
    IN  [year |-> y, month |-> m,
         day |-> n - DaysBeforeYear(y) - DaysBeforeMonth(y, m)]

\* d + timedelta(days=i)
AddDays(d, i) == FromOrdinal(ToOrdinal(d) + i)

-----------------------------------------------------------------------------
(* Date formatter                                                          *)

SPANISH_DAYS ==
    << <<"l","u","n","e","s">>, <<"m","a","r","t","e","s">>,
       <<"m","i","e","r","c","o","l","e","s">>, <<"j","u","e","v","e","s">>,
       <<"v","i","e","r","n","e","s">>, <<"s","a","b","a","d","o">>,
       <<"d","o","m","i","n","g","o">> >>

SPANISH_MONTHS ==
    << <<"e","n","e","r","o">>, <<"f","e","b","r","e","r","o">>,
       <<"m","a","r","z","o">>, <<"a","b","r","i","l">>, <<"m","a","y","o">>,
       <<"j","u","n","i","o">>, <<"j","u","l","i","o">>,
       <<"a","g","o","s","t","o">>,
       <<"s","e","p","t","i","e","m","b","r","e">>,
       <<"o","c","t","u","b","r","e">>,
       <<"n","o","v","i","e","m","b","r","e">>,
       <<"d","i","c","i","e","m","b","r","e">> >>

DigitChars == <<"0", "1", "2", "3", "4", "5", "6", "7", "8", "9">>

\* f"{n:02d}" for 0 <= n <= 99
Format02d(n) ==
    IF n < 10 THEN <<"0", DigitChars[n + 1]>>
    ELSE <<DigitChars[(n \div 10) + 1], DigitChars[(n % 10) + 1]>>

format_date_es(d) ==
    LET day == SPANISH_DAYS[Weekday(d) + 1]
        month == SPANISH_MONTHS[d.month]
    IN  day \o <<",", " ">> \o Format02d(d.day) \o <<" ", "d", "e", " ">> \o month

\* variant: the label cut at the first blank
day_from_formatted_split_blank(col_label) == StrSplitFirst(col_label, " ")

day_from_formatted_split(col_label) == StrSplitFirst(col_label, ",")

day_from_formatted(col_label) ==
    StrLower(StrStrip(day_from_formatted_split(col_label)))

today_spanish_day == SPANISH_DAYS[Weekday(today) + 1]

-----------------------------------------------------------------------------
(* Python float (IEEE-754 binary64) as far as apply_style_pax needs it.    *)
(* A float is [m2, m1, m0, exp]: the value (m2*2^40 + m1*2^20 + m0) /      *)
(* 2^exp, with a significand of at most 53 bits.                           *)

RECURSIVE Pow2(_)
Pow2(n) == IF n = 0 THEN 1 ELSE 2 * Pow2(n - 1)

Limb == Pow2(20)

RECURSIVE BitLength(_)
BitLength(n) == IF n = 0 THEN 0 ELSE 1 + BitLength(n \div 2)

\* the literal 1.05 = 0x1.0cccccccccccdp+0 = 4728779608739021 / 2^52
Float_1_05 == [m2 |-> 4300, m1 |-> 838860, m0 |-> 838861, exp |-> 52]

\* the literal 0.95 = 0x1.e666666666666p-1 = 8556839292003942 / 2^53
Float_0_95 == [m2 |-> 7782, m1 |-> 419430, m0 |-> 419430, exp |-> 53]

\* int * float for a positive int: the exact product rounded to 53
\* significant bits, ties to even
IntTimesFloat(n, f) ==
    LET a0 == n * f.m0
        a1 == n * f.m1 + (a0 \div Limb)
        a2 == n * f.m2 + (a1 \div Limb)
        p0 == a0 % Limb
        p1 == a1 % Limb
        k  == BitLength(a2) - 13            \* bits that do not fit
        unit == Pow2(k)
        low  == p0 % unit
        odd  == ((p0 \div unit) % 2) = 1
        up   == /\ k > 0
                /\ \/ 2 * low > unit
                   \/ 2 * low = unit /\ odd
        r0 == p0 - low + (IF up THEN unit ELSE 0)
        r1 == p1 + (r0 \div Limb)
        r2 == a2 + (r1 \div Limb)
    IN  [m2 |-> r2, m1 |-> r1 % Limb, m0 |-> r0 % Limb, exp |-> f.exp]

\* int >= float (Python compares the two exactly)
IntGeFloat(n, f) ==
    LET n2 == n * Pow2(f.exp - 40)
    IN  \/ n2 > f.m2
        \/ n2 = f.m2 /\ f.m1 = 0 /\ f.m0 = 0

-----------------------------------------------------------------------------
(* apply_style_pax: the style of one PAX cell                              *)

NoStyle == ""
Verde == "background-color: #d4edda; color: black"
Amarillo == "background-color: #fff3cd; color: black"
Rojo == "background-color: #f8d7da; color: black"

\* isinstance(v, (int, float)) for the values a cell or a goal can hold
IsNumber(v) == v \in Int

\* variant: the upper threshold taken as exclusive
pax_style_above_strict(pax_val, goal_val) ==
    LET limit == IntTimesFloat(goal_val, Float_1_05)
    IN  pax_val * Pow2(limit.exp - 40) > limit.m2

pax_style_above(pax_val, goal_val) == IntGeFloat(pax_val, IntTimesFloat(goal_val, Float_1_05))

pax_style_near(pax_val, goal_val) == IntGeFloat(pax_val, IntTimesFloat(goal_val, Float_0_95))

pax_style_scored(pax_val, goal_val) == IsNumber(pax_val) /\ IsNumber(goal_val) /\ goal_val > 0

pax_style(pax_val, goal_val) ==
    IF pax_style_scored(pax_val, goal_val)
    THEN IF pax_style_above(pax_val, goal_val) THEN Verde
         ELSE IF pax_style_near(pax_val, goal_val) THEN Amarillo
         ELSE Rojo
    ELSE NoStyle

\* style of one cell of the combined table (lines 110, 115-121)
cell_style(col_type, cell_val, goal_val) ==
    IF col_type = "PAX" THEN pax_style(cell_val, goal_val) ELSE NoStyle

-----------------------------------------------------------------------------
(* Python values held in table cells: tagged records                       *)

Str(s) == [t |-> "str", s |-> s]
IntObj(i) == [t |-> "int", i |-> i]
Null == [t |-> "null"]                                  \* None / NaN
Text == [t |-> "text"]                                  \* a cell that is no date
DateTime(d, h) == [t |-> "datetime", date |-> d, hour |-> h]
Timestamp(d, h) == [t |-> "Timestamp", date |-> d, hour |-> h]
NaT == [t |-> "NaT"]

NoKey == [k |-> "NoKey"]                                \* key absent from st.session_state
None == [k |-> "None"]

\* dict.get(key, default); a dict is a function, {} is the empty function
EmptyDict == <<>>
DictGet(d, key, default) == IF key \in DOMAIN d THEN d[key] ELSE default

-----------------------------------------------------------------------------
(* pandas.DataFrame as far as the program uses it: the column labels, one  *)
(* sequence of cells per column, the number of rows                        *)

DataFrame(columns, values, len) ==
    [k |-> "DataFrame", columns |-> columns, values |-> values, len |-> len]

HasColumn(t, c) == \E i \in 1..Len(t.columns) : t.columns[i] = c

\* df[c]
Column(t, c) == t.values[CHOOSE i \in 1..Len(t.columns) : t.columns[i] = c]

\* df[c] = cells
SetColumn(t, c, cells) ==
    IF HasColumn(t, c)
    THEN [t EXCEPT !.values[CHOOSE i \in 1..Len(t.columns) : t.columns[i] = c] = cells]
    ELSE [t EXCEPT !.columns = Append(t.columns, c), !.values = Append(t.values, cells)]

status_col == <<"s","t","a","t","u","s">>
establishment_col == <<"e","s","t","a","b","l","i","s","h","m","e","n","t","_","n","a","m","e">>
branch_col == <<"e","s","t","a","b","l","i","s","h","m","e","n","t","_","b","r","a","n","c","h","_","a","d","d","r","e","s","s">>
date_col == <<"m","e","t","a","_","r","e","s","e","r","v","a","t","i","o","n","_","d","a","t","e">>
persons_col == <<"m","e","t","a","_","r","e","s","e","r","v","a","t","i","o","n","_","p","e","r","s","o","n","s">>
sede_col == <<"e","s","t","a","b","l","e","c","i","m","i","e","n","t","o","_","s","e","d","e">>
Asignado == <<"A","s","i","g","n","a","d","o">>

\* df[establishment_col] + ' - ' + df[branch_col]
establecimiento_sede(t) ==
    LET names == Column(t, establishment_col)
        branches == Column(t, branch_col)
    IN  [r \in 1..t.len |-> Str(names[r].s \o <<" ","-"," ">> \o branches[r].s)]

-----------------------------------------------------------------------------
(* load_and_process_data                                                   *)

\* an uploaded file: its name and what the decoder makes of its bytes
\* (a DataFrame, or Raises when pd.read_csv / pd.read_excel raise)
Raises == [k |-> "Raises"]
UploadedFile(name, decoded) == [name |-> name, decoded |-> decoded]

\* variant: the keys of this file replace the known ones
all_estabs_overwrite(old_list, new_estabs) == Range(new_estabs)

\* line 79: the union of the known keys and the keys of this file
all_estabs(old_list, new_estabs) == Range(old_list) \cup Range(new_estabs)

\* lines 78-82: the new value of st.session_state.establecimientos_list
merge_establecimientos(session_list, new_estabs) ==
    IF session_list # NoKey
    THEN [k |-> "list", items |-> Sorted(all_estabs(session_list.items, new_estabs))]
    ELSE [k |-> "list", items |-> new_estabs]

\* lines 62-68: the decoder is called only for the two extensions
file_format(uploaded_file) ==
    IF StrEndsWith(uploaded_file.name, <<".","c","s","v">>) THEN "csv"
    ELSE IF StrEndsWith(uploaded_file.name, <<".","x","l","s","x">>) THEN "xlsx"
    ELSE "unsupported"

\* lines 74-87 on the decoded frame
process_data(read, session_list) ==
    LET stripped == [read EXCEPT !.columns =
                        [i \in 1..Len(read.columns) |-> StrStrip(read.columns[i])]]
        identity == HasColumn(stripped, establishment_col) /\ HasColumn(stripped, branch_col)
        sede == establecimiento_sede(stripped)
        new_estabs == Sorted({sede[r].s : r \in 1..stripped.len})
        merged == IF identity THEN merge_establecimientos(session_list, new_estabs)
                  ELSE session_list
    IN  [ret |-> IF identity THEN SetColumn(stripped, sede_col, sede) ELSE stripped,
         establecimientos_list |-> IF merged = NoKey THEN [k |-> "list", items |-> <<>>]
                                   ELSE merged,
         message |-> IF identity THEN "success" ELSE "warning"]

\* the result: [ret, establecimientos_list, message]
load_and_process_data(uploaded_file, session_list) ==
    IF file_format(uploaded_file) = "unsupported"
    THEN [ret |-> None, establecimientos_list |-> session_list, message |-> "unsupported"]
    ELSE IF uploaded_file.decoded = Raises
    THEN [ret |-> None, establecimientos_list |-> session_list, message |-> "error"]
    ELSE process_data(uploaded_file.decoded, session_list)

-----------------------------------------------------------------------------
(* fetch_goals                                                             *)

\* The collection 'metas' is a dict from document id to document content;
\* a document exists when its id is in the domain.
doc_to_dict(collection, id) == DictGet(collection, id, EmptyDict)

\* the result: [raised, goals]; read_ok says whether goals_ref.get() answers
fetch_goals(the_db, collection, read_ok) ==
    IF the_db = "None" THEN [raised |-> FALSE, goals |-> EmptyDict]
    ELSE IF ~read_ok THEN [raised |-> TRUE, goals |-> EmptyDict]
    ELSE [raised |-> FALSE, goals |-> doc_to_dict(collection, today_spanish_day)]

-----------------------------------------------------------------------------
(* create_dashboard                                                        *)

required_columns == <<status_col, establishment_col, branch_col, date_col, persons_col>>

\* pd.to_datetime(..., errors='coerce') on one cell
to_datetime(v) ==
    IF v.t \in {"datetime", "Timestamp"} THEN Timestamp(v.date, v.hour) ELSE NaT

\* variant: range(6)
date_range_short(now) == [i \in 1..6 |-> AddDays(now, i - 1)]

\* line 133
date_range(now) == [i \in 1..7 |-> AddDays(now, i - 1)]

\* line 134
formatted_dates(dates) == [i \in 1..Len(dates) |-> format_date_es(dates[i])]

\* variant: the status compared without regard to case
status_mask_nocase(v) == v.t = "str" /\ StrLower(v.s) = StrLower(Asignado)

\* df['status'] == 'Asignado' on one cell
status_mask(v) == v = Str(Asignado)

\* df['meta_reservation_date'].dt.date.isin(date_range) on one cell
date_mask(v, dates) == v.t = "Timestamp" /\ \E i \in 1..Len(dates) : dates[i] = v.date

\* lines 136-138: the rows kept, as increasing indices into the frame
df_filtrado(t, dates) ==
    LET status == Column(t, status_col)
        fechas == Column(t, date_col)
    IN  SelectSeq([r \in 1..t.len |-> r],
                  LAMBDA r : status_mask(status[r]) /\ date_mask(fechas[r], dates))

RECURSIVE SumSeq(_)
SumSeq(s) == IF s = <<>> THEN 0 ELSE Head(s) + SumSeq(Tail(s))

\* rsv=('status', 'size') and pax=('meta_reservation_persons', 'sum') for
\* the rows of one group
group_rsv(persons, members) == Len(members)

group_pax(persons, members) == SumSeq([n \in 1..Len(members) |-> persons[members[n]].i])

\* lines 146-152: one row per (establecimiento_sede, fecha_formato) group
conteo_pax(t, dates) ==
    LET kept == df_filtrado(t, dates)
        sede == establecimiento_sede(t)
        fechas == Column(t, date_col)
        persons == Column(t, persons_col)
        fecha_formato == [n \in 1..Len(kept) |-> format_date_es(fechas[kept[n]].date)]
        groups == {<<sede[kept[n]].s, fecha_formato[n]>> : n \in 1..Len(kept)}
        members(g) == LET at == SelectSeq([n \in 1..Len(kept) |-> n],
                                  LAMBDA n : sede[kept[n]].s = g[1] /\ fecha_formato[n] = g[2])
                      IN  [n \in 1..Len(at) |-> kept[at[n]]]
    IN  {[establecimiento_sede |-> g[1], fecha_formato |-> g[2],
          rsv |-> group_rsv(persons, members(g)),
          pax |-> group_pax(persons, members(g))] : g \in groups}

\* line 140
all_establishments(session_list) ==
    IF session_list = NoKey THEN <<>> ELSE session_list.items

\* lines 142-162: a frame of zeros, then one assignment per group row
pivot(index, columns, groups, field) ==
    [i \in 1..Len(index) |-> [j \in 1..Len(columns) |->
        LET hit == {g \in groups :
                      g.establecimiento_sede = index[i] /\ g.fecha_formato = columns[j]}
        IN  IF hit = {} THEN 0 ELSE (CHOOSE g \in hit : TRUE)[field]]]

\* line 170: pd.MultiIndex.from_product([formatted_dates, ['RSV', 'PAX']])
display_columns(labels) ==
    [c \in 1..(2 * Len(labels)) |->
        <<labels[(c + 1) \div 2], IF c % 2 = 1 THEN "RSV" ELSE "PAX">>]

\* variant: the goal of today's weekday for every column
goal_lookup_today(daily_goals_matrix, idx, day_key) ==
    DictGet(DictGet(daily_goals_matrix, idx, EmptyDict), today_spanish_day, 0)

\* line 114
goal_lookup(daily_goals_matrix, idx, day_key) ==
    DictGet(DictGet(daily_goals_matrix, idx, EmptyDict), day_key, 0)

\* apply_style_pax: a frame of '' with the PAX cells that have a goal coloured
apply_style_pax(index, columns, data, daily_goals_matrix) ==
    LET day_key == [c \in 1..Len(columns) |-> day_from_formatted(columns[c][1])]
    IN  [i \in 1..Len(index) |-> [c \in 1..Len(columns) |->
            cell_style(columns[c][2], data[i][c],
                       goal_lookup(daily_goals_matrix, index[i], day_key[c]))]]

\* the result: [view, df]; df is the caller's frame, whose date column
\* line 131 converts in place
create_dashboard(t, all_goals, session_list) ==
    IF \E n \in 1..Len(required_columns) : ~HasColumn(t, required_columns[n])
    THEN [view |-> [k |-> "missing_columns"], df |-> t]
    ELSE
    LET raw == Column(t, date_col)
        converted == SetColumn(t, date_col, [r \in 1..t.len |-> to_datetime(raw[r])])
        dates == date_range(today)
        labels == formatted_dates(dates)
        index == all_establishments(session_list)
        groups == conteo_pax(converted, dates)
        pivot_rsv == pivot(index, labels, groups, "rsv")
        pivot_pax == pivot(index, labels, groups, "pax")
        columns == display_columns(labels)
        data == [i \in 1..Len(index) |-> [c \in 1..Len(columns) |->
                    IF columns[c][2] = "RSV" THEN pivot_rsv[i][(c + 1) \div 2]
                    ELSE pivot_pax[i][(c + 1) \div 2]]]
    IN  [view |-> [k |-> "dashboard", index |-> index, columns |-> columns,
                   data |-> data,
                   styled |-> apply_style_pax(index, columns, data, all_goals),
                   empty_warning |-> (index = <<>>)],
         df |-> converted]
-----------------------------------------------------------------------------
(* metas_page                                                              *)

dias_semana_full ==
    << <<"L","u","n","e","s">>, <<"M","a","r","t","e","s">>, <<"M","i","e","r","c","o","l","e","s">>, <<"J","u","e","v","e","s">>,
       <<"V","i","e","r","n","e","s">>, <<"S","a","b","a","d","o">>, <<"D","o","m","i","n","g","o">> >>

\* int(v) on a cell of the edited grid: [raised, value]
py_int(v) ==
    IF v.t = "int" THEN [raised |-> FALSE, value |-> v.i]
    ELSE [raised |-> TRUE, value |-> 0]

\* day.lower() for the seven columns of the grid
day_keys == [j \in 1..7 |-> StrLower(dias_semana_full[j])]

\* lines 195-201: the grid shown for editing
metas_df(current_goals, session_list) ==
    LET index == Sorted(DOMAIN current_goals \cup Range(all_establishments(session_list)))
        keys == day_keys
    IN  [index |-> index,
         data |-> [i \in 1..Len(index) |-> [j \in 1..7 |->
                     IntObj(goal_lookup(current_goals, index[i], keys[j]))]]]

\* what the operator types into st.data_editor: nothing, or one cell
NoEdit == [k |-> "none"]
CellEdit(i, j, v) == [k |-> "cell", row |-> i, day |-> j, value |-> v]

data_editor(grid, edit) ==
    IF edit.k = "cell"
    THEN [grid EXCEPT !.data[edit.row][edit.day] = edit.value]
    ELSE grid

\* variant: rows with an unusable cell are left out and the rest is saved
goals_to_save_skipping(edited_df) ==
    LET keys == day_keys
        good == {i \in 1..Len(edited_df.index) :
                   \A j \in 1..7 : ~py_int(edited_df.data[i][j]).raised}
    IN  [raised |-> FALSE,
         goals |-> [e \in {edited_df.index[i] : i \in good} |->
                     LET i == CHOOSE n \in good : edited_df.index[n] = e
                     IN  [d \in Range(keys) |->
                            py_int(edited_df.data[i][CHOOSE n \in 1..7 : keys[n] = d]).value]]]

\* lines 210-212: [raised, goals]
goals_to_save(edited_df) ==
    LET keys == day_keys
        coerced == [i \in 1..Len(edited_df.index) |-> [j \in 1..7 |->
                      py_int(edited_df.data[i][j])]]
    IN  IF \E i \in 1..Len(edited_df.index), j \in 1..7 : coerced[i][j].raised
        THEN [raised |-> TRUE, goals |-> EmptyDict]
        ELSE [raised |-> FALSE,
              goals |-> [e \in Range(edited_df.index) |->
                          LET i == CHOOSE n \in 1..Len(edited_df.index) : edited_df.index[n] = e
                          IN  [d \in Range(keys) |->
                                 coerced[i][CHOOSE n \in 1..7 : keys[n] = d].value]]]

\* goals_ref.set(goals): the document is replaced
document_set(collection, id, goals) ==
    [x \in DOMAIN collection \cup {id} |-> IF x = id THEN goals ELSE collection[x]]

\* the result: [view, store]
metas_page(collection, session_list, selected_day_to_edit, edit, clicked, read_ok, write_ok) ==
    IF ~read_ok THEN [view |-> [k |-> "exception"], store |-> collection]
    ELSE
    LET id == StrLower(selected_day_to_edit)
        current_goals == doc_to_dict(collection, id)
        edited_df == data_editor(metas_df(current_goals, session_list), edit)
        to_save == goals_to_save(edited_df)
        saved == clicked /\ ~to_save.raised /\ write_ok
    IN  [view |-> [k |-> "metas", selected |-> selected_day_to_edit,
                   rows |-> edited_df.index,
                   message |-> IF ~clicked THEN "none"
                               ELSE IF saved THEN "success" ELSE "error"],
         store |-> IF saved THEN document_set(collection, id, to_save.goals)
                   ELSE collection]

-----------------------------------------------------------------------------
(* The environment: the clock, the files the operator uploads, the goals   *)
(* already in Firestore, the edits typed into the grid                     *)

Todays == {[year |-> 2024, month |-> 2, day |-> 26]}

A_B1 == <<"A"," ","-"," ","B","1">>

\* a frame given row by row
FromRows(columns, rows) ==
    DataFrame(columns,
              [c \in 1..Len(columns) |-> [r \in 1..Len(rows) |-> rows[r][c]]],
              Len(rows))

Row(status, name, branch, date, persons) ==
    <<Str(status), Str(name), Str(branch), date, IntObj(persons)>>

\* a.csv: two bookings of A - B1 for today, one for tomorrow, bookings that
\* do not count, and two spellings of the key 'C - D - E'
FileA(t) ==
    UploadedFile(<<"a",".","c","s","v">>, FromRows(
        <<status_col, establishment_col, branch_col, date_col, persons_col>>,
        << Row(Asignado, <<"A">>, <<"B","1">>, DateTime(t, 9), 4),
           Row(Asignado, <<"A">>, <<"B","1">>, DateTime(t, 20), 6),
           Row(Asignado, <<"A">>, <<"B","1">>, DateTime(AddDays(t, 1), 12), 10),
           Row(<<"a","s","i","g","n","a","d","o">>, <<"A">>, <<"B","1">>, DateTime(t, 12), 3),
           Row(<<"C","a","n","c","e","l","a","d","o">>, <<"A">>, <<"B","1">>, DateTime(t, 12), 2),
           Row(Asignado, <<"A">>, <<"B","1">>, Text, 5),
           Row(Asignado, <<"A">>, <<"B","1">>, DateTime(AddDays(t, 7), 0), 7),
           Row(Asignado, <<"A">>, <<"B","1">>, DateTime(AddDays(t, -1), 23), 8),
           Row(Asignado, <<"C"," ","-"," ","D">>, <<"E">>, DateTime(AddDays(t, 6), 12), 1),
           Row(Asignado, <<"C">>, <<"D"," ","-"," ","E">>, DateTime(AddDays(t, 6), 8), 2) >>))

\* b.xlsx: padded headers, another establishment
FileB(t) ==
    UploadedFile(<<"b",".","x","l","s","x">>, FromRows(
        <<<<" ","s","t","a","t","u","s">>, <<"e","s","t","a","b","l","i","s","h","m","e","n","t","_","n","a","m","e"," ">>, branch_col, <<"\t","m","e","t","a","_","r","e","s","e","r","v","a","t","i","o","n","_","d","a","t","e">>, persons_col>>,
        << Row(Asignado, <<"B">>, <<"B","1">>, DateTime(AddDays(t, 2), 13), 20),
           Row(Asignado, <<"B">>, <<"B","1">>, Null, 9) >>))

\* c.csv: no branch column
FileC(t) ==
    UploadedFile(<<"c",".","c","s","v">>, FromRows(
        <<status_col, establishment_col, date_col, persons_col>>,
        << <<Str(Asignado), Str(<<"A">>), DateTime(t, 10), IntObj(2)>> >>))

\* d.csv: bytes the decoder rejects
FileD == UploadedFile(<<"d",".","c","s","v">>, Raises)

\* E.CSV: the uploader lets it through, the extension test does not
FileE(t) ==
    UploadedFile(<<"E",".","C","S","V">>, FromRows(
        <<status_col, establishment_col, branch_col, date_col, persons_col>>,
        << Row(Asignado, <<"A">>, <<"B","1">>, DateTime(t, 9), 4) >>))

Files(t) == {FileA(t), FileB(t), FileC(t), FileD, FileE(t)}

C_D_E == <<"C"," ","-"," ","D"," ","-"," ","E">>

DayName(t, n) == SPANISH_DAYS[((Weekday(t) + n) % 7) + 1]

\* goals found in Firestore when the session starts:
\*   - none;
\*   - one document for today's weekday holding a goal for today only;
\*   - documents written by earlier sessions: in today's document A - B1
\*     has 5 for today and 10 for tomorrow, C - D - E has 4 for the last
\*     day of the window; tomorrow's document has 100 for A - B1 today.
WeekOf(t, goals) ==
    [d \in Range(SPANISH_DAYS) |-> IF d \in DOMAIN goals THEN goals[d] ELSE 0]

InitialStores(t) ==
    {EmptyDict,
     [id \in {DayName(t, 0)} |-> [e \in {A_B1} |-> [d \in {DayName(t, 0)} |-> 5]]],
     [id \in {DayName(t, 0), DayName(t, 1)} |->
        IF id = DayName(t, 0)
        THEN [e \in {A_B1, C_D_E} |->
                IF e = A_B1
                THEN WeekOf(t, [d \in {DayName(t, 0), DayName(t, 1)} |->
                                   IF d = DayName(t, 0) THEN 5 ELSE 10])
                ELSE WeekOf(t, [d \in {DayName(t, 6)} |-> 4])]
        ELSE [e \in {A_B1} |-> WeekOf(t, [d \in {DayName(t, 0)} |-> 100])]]}

MaxSaves == 1       \* goal documents written in one session

\* the day the operator picks in the selectbox: today's
SelectedDays(t) == {dias_semana_full[Weekday(t) + 1]}

\* what the operator types into one cell: a goal for today in any row, or
\* nothing usable in the first or the last day of any row
GoodValues == {IntObj(20), IntObj(-3)}
BadValues == {Null}

GoodEdits(grid, t) ==
    {NoEdit} \cup
    {CellEdit(i, Weekday(t) + 1, v) : i \in 1..Len(grid.index), v \in GoodValues}

BadEdits(grid) ==
    {CellEdit(i, j, v) : i \in 1..Len(grid.index), j \in {1, 7}, v \in BadValues}

-----------------------------------------------------------------------------
(* The script: one run per interaction                                     *)

\* lines 33-56: the cached result of the first call
setup_firebase(firebase_ok) ==
    IF db = "unset" THEN (IF firebase_ok THEN "client" ELSE "None") ELSE db

NoResult == [k |-> "none"]

Init ==
    /\ db = "unset"
    /\ df = NoKey
    /\ establecimientos_list = NoKey
    /\ uploaded_file_name = NoKey
    /\ today \in Todays
    /\ store \in InitialStores(today)
    /\ view = [k |-> "blank"]
    /\ last = [op |-> "start"]
    /\ saves = 0
    /\ fnIn = NoResult
    /\ fnOut = NoResult

\* lines 223-238; the result of each call is bound once
AnalisisDeReservas(uploaded_file, firebase_ok, read_ok) ==
    LET the_db == setup_firebase(firebase_ok)
        upload == uploaded_file # None
    IN  \E loaded \in {IF upload
                        THEN load_and_process_data(uploaded_file, establecimientos_list)
                        ELSE [ret |-> df, establecimientos_list |-> establecimientos_list,
                              message |-> "none"]} :
        LET df1 == loaded.ret
            list1 == loaded.establecimientos_list
            render == df1 # NoKey /\ df1 # None
            all_goals == fetch_goals(the_db, store, read_ok)
        IN  \E board \in {IF render /\ ~all_goals.raised
                           THEN create_dashboard(df1, all_goals.goals, list1)
                           ELSE NoResult} :
            /\ db' = the_db
            /\ uploaded_file_name' = IF upload THEN [k |-> "str", s |-> uploaded_file.name]
                                     ELSE uploaded_file_name
            /\ establecimientos_list' = list1
            /\ df' = IF render /\ ~all_goals.raised THEN board.df ELSE df1
            /\ view' = IF ~render THEN [k |-> "info"]
                       ELSE IF all_goals.raised THEN [k |-> "exception"]
                       ELSE board.view
            /\ last' = [op |-> "analisis", upload |-> upload, message |-> loaded.message,
                        read_failed |-> render /\ all_goals.raised]
            /\ UNCHANGED <<store, today, saves, fnIn, fnOut>>

\* lines 240-244
GestionDeMetas(selected_day_to_edit, edit, clicked, firebase_ok, read_ok, write_ok) ==
    LET the_db == setup_firebase(firebase_ok)
    IN  \E page \in {IF the_db = "client"
                      THEN metas_page(store, establecimientos_list, selected_day_to_edit,
                                      edit, clicked, read_ok, write_ok)
                      ELSE [view |-> [k |-> "no_database"], store |-> store]} :
            /\ db' = the_db
            /\ view' = page.view
            /\ store' = page.store
            /\ saves' = IF page.view.k = "metas" /\ page.view.message = "success"
                         THEN saves + 1 ELSE saves
            /\ last' = [op |-> "metas", clicked |-> clicked,
                        typed |-> IF edit.k = "cell" THEN edit.value ELSE [t |-> "nothing"],
                        write_ok |-> clicked /\ write_ok]
            /\ UNCHANGED <<df, establecimientos_list, uploaded_file_name, today, fnIn, fnOut>>

\* the grid the operator sees before typing
shown_grid(selected_day_to_edit) ==
    metas_df(doc_to_dict(store, StrLower(selected_day_to_edit)), establecimientos_list)

\* outcomes the environment can produce in the current state
FirebaseOutcomes == IF db = "unset" THEN BOOLEAN ELSE {TRUE}
ReadOutcomes == IF db = "None" THEN {TRUE} ELSE BOOLEAN

Analisis ==
    \E uploaded_file \in Files(today) \cup {None} :
        \E firebase_ok \in FirebaseOutcomes, read_ok \in ReadOutcomes :
            AnalisisDeReservas(uploaded_file, firebase_ok, read_ok)

\* a click on "Guardar Metas": the button is on the page only when the
\* client exists and the document was read; the write is attempted, and can
\* fail, only when every cell is usable
Metas ==
    \E selected_day_to_edit \in SelectedDays(today) :
        \E firebase_ok \in FirebaseOutcomes, read_ok \in ReadOutcomes :
            \/ GestionDeMetas(selected_day_to_edit, NoEdit, FALSE, firebase_ok, read_ok, TRUE)
            \/ /\ db = "client"
               /\ read_ok
               /\ \/ /\ saves < MaxSaves
                     /\ \E edit \in GoodEdits(shown_grid(selected_day_to_edit), today),
                           write_ok \in BOOLEAN :
                           GestionDeMetas(selected_day_to_edit, edit, TRUE, firebase_ok,
                                          read_ok, write_ok)
                  \/ \E edit \in BadEdits(shown_grid(selected_day_to_edit)) :
                        GestionDeMetas(selected_day_to_edit, edit, TRUE, firebase_ok,
                                       read_ok, TRUE)

Next == Analisis \/ Metas

Spec == Init /\ [][Next]_vars

-----------------------------------------------------------------------------
(* The date formatter on its own: every date of NumYears years             *)

NumYears == 2

Dates ==
    {[year |-> y, month |-> m, day |-> d] :
        y \in {t.year + n : t \in Todays, n \in 0..(NumYears - 1)},
        m \in 1..12, d \in 1..31}

ValidDates == {d \in Dates : d.day <= DaysInMonth(d.year, d.month)}

IdleApp ==
    /\ db = "unset"
    /\ df = NoKey
    /\ establecimientos_list = NoKey
    /\ uploaded_file_name = NoKey
    /\ today \in Todays
    /\ store = EmptyDict
    /\ view = [k |-> "blank"]
    /\ last = [op |-> "start"]
    /\ saves = 0

InitDate ==
    /\ IdleApp
    /\ fnIn \in ValidDates
    /\ fnOut = NoResult

FormatDate ==
    /\ fnOut.k = "none"
    /\ fnOut' = [k |-> "label", label |-> format_date_es(fnIn)]
    /\ UNCHANGED <<db, df, establecimientos_list, uploaded_file_name, store, today,
                   view, last, saves, fnIn>>

DayFromFormatted ==
    /\ fnOut.k = "label"
    /\ fnOut' = [k |-> "day", day |-> day_from_formatted(fnOut.label)]
    /\ UNCHANGED <<db, df, establecimientos_list, uploaded_file_name, store, today,
                   view, last, saves, fnIn>>

NextDate == FormatDate \/ DayFromFormatted

SpecDate == InitDate /\ [][NextDate]_vars

-----------------------------------------------------------------------------
(* The cell styling on its own: every cell value and goal in range         *)

MaxPax == 110
MaxGoal == 105
NegGoals == 2

InitStyle ==
    /\ IdleApp
    /\ fnIn \in [col_type : {"RSV", "PAX"}, cell : 0..MaxPax, goal : (-NegGoals)..MaxGoal]
    /\ fnOut = NoResult

StyleCell ==
    /\ fnOut.k = "none"
    /\ fnOut' = [k |-> "style", style |-> cell_style(fnIn.col_type, fnIn.cell, fnIn.goal)]
    /\ UNCHANGED <<db, df, establecimientos_list, uploaded_file_name, store, today,
                   view, last, saves, fnIn>>

NextStyle == StyleCell

SpecStyle == InitStyle /\ [][NextStyle]_vars

-----------------------------------------------------------------------------
(* Properties                                                              *)

Keys(list) == IF list = NoKey THEN {} ELSE Range(list.items)

\* the file whose upload started the last run
UploadedNow(name) ==
    LET files == <<FileA(today), FileB(today), FileC(today), FileD, FileE(today)>>
    IN  files[CHOOSE i \in 1..Len(files) : files[i].name = name.s]

\* how an upload must end, read off the file alone
UploadKind(f) ==
    IF ~(StrEndsWith(f.name, <<".","c","s","v">>) \/ StrEndsWith(f.name, <<".","x","l","s","x">>)) THEN "failed"
    ELSE IF f.decoded = Raises THEN "failed"
    ELSE IF \A c \in {establishment_col, branch_col} :
               \E i \in 1..Len(f.decoded.columns) : StrStrip(f.decoded.columns[i]) = c
         THEN "identified"
         ELSE "anonymous"

\* the keys '{name} - {branch}' found in a file
FileKeys(f) ==
    LET t == f.decoded
        at(c) == CHOOSE i \in 1..Len(t.columns) : StrStrip(t.columns[i]) = c
    IN  {t.values[at(establishment_col)][r].s \o <<" ","-"," ">> \o t.values[at(branch_col)][r].s :
            r \in 1..t.len}

UploadRun(kind) ==
    /\ last'.op = "analisis"
    /\ last'.upload
    /\ UploadKind(UploadedNow(uploaded_file_name')) = kind

\* C1: an upload that fails (unsupported extension, or the decoder raising)
\* leaves the establishment universe and a previously stored table as they
\* were, and the dashboard is still rendered from that table in the same run.
C1_FailedUploadKeepsSession ==
    [][UploadRun("failed") =>
          /\ establecimientos_list' = establecimientos_list
          /\ df.k = "DataFrame" => (df' = df /\ view'.k # "info")]_vars

\* C2: the establishment universe never loses a key; an upload with both
\* identity columns sets it to the sorted union of the old universe and the
\* keys of the file; an upload lacking an identity column leaves an existing
\* universe unchanged.
C2_UniverseGrows ==
    [][/\ Keys(establecimientos_list) \subseteq Keys(establecimientos_list')
       /\ (last'.op = "analisis" /\ last'.upload) =>
             \A f \in {UploadedNow(uploaded_file_name')} : \A kind \in {UploadKind(f)} :
                /\ kind = "identified" =>
                      /\ Keys(establecimientos_list') =
                             Keys(establecimientos_list) \cup FileKeys(f)
                      /\ establecimientos_list'.items = Sorted(Keys(establecimientos_list'))
                /\ (kind = "anonymous" /\ establecimientos_list # NoKey) =>
                      establecimientos_list' = establecimientos_list
                /\ kind = "failed" => establecimientos_list' = establecimientos_list]_vars

C2_Witness ==
    /\ last.op = "analisis" /\ last.upload /\ last.message = "success"
    /\ uploaded_file_name.s = <<"b",".","x","l","s","x">>
    /\ Keys(establecimientos_list) = {A_B1, C_D_E, <<"B"," ","-"," ","B","1">>}

\* C3: a click on "Guardar Metas" with a cell that is no integer, or whose
\* write fails, leaves every stored document as it was and reports an error.
C3_SaveAllOrNothing ==
    [][(/\ last'.op = "metas"
        /\ last'.clicked
        /\ \/ last'.typed.t \notin {"int", "nothing"}
           \/ ~last'.write_ok) =>
          /\ store' = store
          /\ view'.k = "metas" /\ view'.message = "error"]_vars

C3_Witness ==
    /\ last.op = "metas" /\ last.clicked /\ last.typed = Null
    /\ view.k = "metas" /\ view.message = "error" /\ Len(view.rows) >= 2
    /\ saves = 1
    /\ DayName(today, 0) \in DOMAIN store

\* C4: every goal held in a stored weekday document is a non-negative
\* integer.
C4_GoalsNonNegative ==
    \A id \in DOMAIN store : \A e \in DOMAIN store[id] : \A d \in DOMAIN store[id][e] :
        store[id][e][d] >= 0

\* the band of a PAX value against a goal, in exact arithmetic
Band(pax, goal) ==
    IF goal <= 0 THEN NoStyle
    ELSE IF 100 * pax >= 105 * goal THEN Verde
    ELSE IF 100 * pax >= 95 * goal THEN Amarillo
    ELSE Rojo

\* C5: a PAX cell is unstyled when goal <= 0, else ABOVE when
\* pax >= 1.05 * goal, else NEAR when pax >= 0.95 * goal, else BELOW, both
\* thresholds inclusive: (105,100) ABOVE, (104,100) NEAR, (95,100) NEAR,
\* (94,100) BELOW, (50,0) unstyled; an RSV cell is never styled.
C5_ClassificationBands ==
    fnOut.k = "style" =>
        /\ fnOut.style = IF fnIn.col_type = "PAX" THEN Band(fnIn.cell, fnIn.goal) ELSE NoStyle
        /\ fnIn = [col_type |-> "PAX", cell |-> 105, goal |-> 100] => fnOut.style = Verde
        /\ fnIn = [col_type |-> "PAX", cell |-> 104, goal |-> 100] => fnOut.style = Amarillo
        /\ fnIn = [col_type |-> "PAX", cell |-> 95, goal |-> 100] => fnOut.style = Amarillo
        /\ fnIn = [col_type |-> "PAX", cell |-> 94, goal |-> 100] => fnOut.style = Rojo
        /\ fnIn = [col_type |-> "PAX", cell |-> 50, goal |-> 0] => fnOut.style = NoStyle

C5_Witness ==
    /\ fnIn = [col_type |-> "PAX", cell |-> 105, goal |-> 100]
    /\ fnOut.k = "style" /\ fnOut.style = Verde

\* the rows of the session table that count for establishment e on date d
Records(e, d) ==
    LET status == Column(df, status_col)
        names == Column(df, establishment_col)
        branches == Column(df, branch_col)
        fechas == Column(df, date_col)
    IN  {r \in 1..df.len :
            /\ status[r] = Str(Asignado)
            /\ names[r].s \o <<" ","-"," ">> \o branches[r].s = e
            /\ fechas[r].t = "Timestamp"
            /\ fechas[r].date = d}

RECURSIVE Persons(_)
Persons(rows) ==
    IF rows = {} THEN 0
    ELSE LET r == CHOOSE x \in rows : TRUE
         IN  Column(df, persons_col)[r].i + Persons(rows \ {r})

\* C6: on a rendered dashboard, for every establishment e of the universe
\* and every date d of the window, the RSV cell is the number of records of
\* the session table with status exactly 'Asignado', key e and date d, and
\* the PAX cell is the sum of their party sizes.
C6_CellsCountAssignedRecords ==
    view.k = "dashboard" =>
        \A e \in Keys(establecimientos_list) :
            \E i \in 1..Len(view.index) :
                /\ view.index[i] = e
                /\ \A n \in 1..7 :
                      LET rows == Records(e, AddDays(today, n - 1))
                      IN  /\ view.columns[2 * n - 1][2] = "RSV"
                          /\ view.data[i][2 * n - 1] = Cardinality(rows)
                          /\ view.columns[2 * n][2] = "PAX"
                          /\ view.data[i][2 * n] = Persons(rows)

C6_Witness ==
    /\ view.k = "dashboard"
    /\ \E i \in 1..Len(view.index) :
          /\ view.index[i] = A_B1
          /\ view.data[i][1] = 2 /\ view.data[i][2] = 10
          /\ view.data[i][3] = 1 /\ view.data[i][4] = 10
    /\ \E i \in 1..Len(view.index) :
          /\ view.index[i] = C_D_E
          /\ view.data[i][13] = 2 /\ view.data[i][14] = 3

\* C7: on a rendered dashboard there is exactly one row per member of the
\* universe and one RSV and one PAX column per date of the 7-day window, in
\* window order; every cell holds a number, and a member of the universe
\* with no record in the current table has a row of zeros.
C7_ZeroFilledMatrices ==
    view.k = "dashboard" =>
        /\ Len(view.index) = Cardinality(Keys(establecimientos_list))
        /\ Range(view.index) = Keys(establecimientos_list)
        /\ Len(view.columns) = 14
        /\ \A n \in 1..7 :
              /\ view.columns[2 * n - 1] = <<format_date_es(AddDays(today, n - 1)), "RSV">>
              /\ view.columns[2 * n] = <<format_date_es(AddDays(today, n - 1)), "PAX">>
        /\ DOMAIN view.data = 1..Len(view.index)
        /\ \A i \in 1..Len(view.index) :
              /\ DOMAIN view.data[i] = 1..14
              /\ \A c \in 1..14 : view.data[i][c] \in Nat
              /\ (\A r \in 1..df.len : Column(df, sede_col)[r].s # view.index[i]) =>
                    \A c \in 1..14 : view.data[i][c] = 0

C7_Witness ==
    /\ view.k = "dashboard"
    /\ uploaded_file_name.s = <<"b",".","x","l","s","x">>
    /\ \E i, k \in 1..Len(view.index) :
          /\ view.index[i] = A_B1
          /\ \A c \in 1..14 : view.data[i][c] = 0
          /\ view.index[k] = <<"B"," ","-"," ","B","1">>
          /\ view.data[k][6] = 20

\* the goals the dashboard is entitled to: today's document, when there is
\* a client and the document exists
TodaysGoals ==
    IF db = "client" /\ DayName(today, 0) \in DOMAIN store
    THEN store[DayName(today, 0)] ELSE EmptyDict

GoalMiss(e, n) ==
    \/ e \notin DOMAIN TodaysGoals
    \/ DayName(today, n - 1) \notin DOMAIN TodaysGoals[e]

GoalFor(e, n) == IF GoalMiss(e, n) THEN 0 ELSE TodaysGoals[e][DayName(today, n - 1)]

\* C8: the goal used for the PAX cell of establishment e in the n-th column
\* of the window is the value stored at [e][weekday of that date] in the
\* document of today's weekday; on a miss the goal is 0 and the cell is
\* unstyled.
C8_GoalLookup ==
    view.k = "dashboard" =>
        \A i \in 1..Len(view.index), n \in 1..7 :
            /\ view.styled[i][2 * n] = Band(view.data[i][2 * n], GoalFor(view.index[i], n))
            /\ GoalMiss(view.index[i], n) => view.styled[i][2 * n] = NoStyle
            /\ view.styled[i][2 * n - 1] = NoStyle

C8_Witness ==
    /\ view.k = "dashboard"
    /\ \E i, k \in 1..Len(view.index) :
          /\ view.index[i] = A_B1
          /\ view.styled[i][2] = Verde
          /\ A_B1 \in DOMAIN TodaysGoals /\ GoalMiss(A_B1, 2)
          /\ view.data[i][4] = 10 /\ view.styled[i][4] = NoStyle
          /\ view.index[k] = C_D_E
          /\ C_D_E \notin DOMAIN TodaysGoals
          /\ view.data[k][14] = 3 /\ view.styled[k][14] = NoStyle

\* C9: with the goal store unreachable (no client, or the read of today's
\* document failing) a run that has a valid table still renders the
\* dashboard, every cell unstyled; the goal page without a client shows an
\* error and no grid.
C9_RenderSurvivesStoreOutage ==
    /\ (/\ last.op = "analisis"
        /\ df.k = "DataFrame"
        /\ \A n \in 1..Len(required_columns) : HasColumn(df, required_columns[n])
        /\ (db = "None" \/ last.read_failed)) =>
          /\ view.k = "dashboard"
          /\ \A i \in 1..Len(view.index), c \in 1..14 : view.styled[i][c] = NoStyle
    /\ (last.op = "metas" /\ db = "None") => view.k = "no_database"

\* C10: for every date d, day_from_formatted(format_date_es(d)) is
\* SPANISH_DAYS[d.weekday()].
C10_WeekdayRoundTrip ==
    fnOut.k = "day" => fnOut.day = SPANISH_DAYS[Weekday(fnIn) + 1]

C10_Witness ==
    /\ fnIn = [year |-> 2025, month |-> 12, day |-> 31]
    /\ fnOut.k = "day"
    /\ fnOut.day = <<"m","i","e","r","c","o","l","e","s">>

====
